---- MODULE Spec2Model ----
\* Model of custom_conversation_agent/conversation.py: the conversation entity
\* MistralConversationEntity, its per-user history and the two halves of
\* async_process around its only suspension point (the executor call made by
\* _call_mistral_api).
\*
\* Texts are sequences of string tokens; "" is the empty sequence.  An optional
\* value (str | None) is a sequence of length at most one: None is << >>,
\* the string s is << s >>.
EXTENDS Integers, Sequences, FiniteSets, TLC

VARIABLES
    history,            \* self.history: user id -> list of {role, content}
    extra_system_prompt,\* self.extra_system_prompt
    pc,                 \* per request: "idle", "awaiting", "returned", "raised"
    user_input,         \* per request: the ConversationInput passed in
    user_id,            \* per request: local user_id
    conversation_id,    \* per request: local conversation_id
    ha_context,         \* per request: local ha_context
    messages,           \* per request: local messages
    response,           \* per request: what the executor call produced
    result,             \* per request: the ConversationResult returned
    ulids,              \* number of ids ulid.ulid() has generated
    calls               \* number of async_process calls started

vars == << history, extra_system_prompt, pc, user_input, user_id,
           conversation_id, ha_context, messages, response, result, ulids, calls >>

-----------------------------------------------------------------------------
\* Bounds of the model.

\* async_process calls started in one behaviour
MaxCalls == 2
\* exchanges the entity has already completed for SeedUser when a behaviour starts
MaxSeed == 10

\* coroutines of async_process that may be in flight together
Requests == {"r1", "r2"}

-----------------------------------------------------------------------------
\* Program constants.

\* len(self.history[user_id]) > 20 and [-20:]
HistoryLimit == 20
\* self.history[user_id][-10:]
ContextTurns == 10

-----------------------------------------------------------------------------
\* Texts.

None == << >>
Some(s) == << s >>
EmptyText == << >>

Whitespace == {" ", "\n"}

\* str.strip(): drop the leading and the trailing whitespace
RECURSIVE LStrip(_)
LStrip(s) ==
    IF s # << >> /\ Head(s) \in Whitespace THEN LStrip(Tail(s)) ELSE s

RECURSIVE RStrip(_)
RStrip(s) ==
    IF s # << >> /\ s[Len(s)] \in Whitespace
    THEN RStrip(SubSeq(s, 1, Len(s) - 1))
    ELSE s

Strip(s) == RStrip(LStrip(s))

Digit == << "0", "1", "2", "3", "4", "5", "6", "7", "8", "9" >>

\* str(n) for 0 <= n < 100
Num(n) == IF n < 10 THEN << Digit[n + 1] >>
          ELSE << Digit[(n \div 10) + 1], Digit[(n % 10) + 1] >>

\* Python's s[-n:] on a list
LastN(s, n) == IF Len(s) <= n THEN s ELSE SubSeq(s, Len(s) - n + 1, Len(s))

\* Python's "x or d" on an optional string: None and "" are falsy
OrElse(x, d) == IF x = None \/ x = Some(EmptyText) THEN d ELSE x[1]

-----------------------------------------------------------------------------
\* _get_ha_context

\* number of states of the given domain
RECURSIVE CountDomain(_, _)
CountDomain(all_states, domain) ==
    IF all_states = << >> THEN 0
    ELSE (IF Head(all_states).domain = domain THEN 1 ELSE 0)
         + CountDomain(Tail(all_states), domain)

\* number of states of the given domain whose state is "on"
RECURSIVE CountOn(_, _)
CountOn(all_states, domain) ==
    IF all_states = << >> THEN 0
    ELSE (IF Head(all_states).domain = domain /\ Head(all_states).state = "on"
          THEN 1 ELSE 0)
         + CountOn(Tail(all_states), domain)

\* the eleven lines that show a bare count, in the order of context_parts
PlainCategories ==
    << [label |-> "- Sensoren:", domain |-> "sensor"],
       [label |-> "- Binaersensoren:", domain |-> "binary_sensor"],
       [label |-> "- Klimageraete:", domain |-> "climate"],
       [label |-> "- Cover/Jalousien:", domain |-> "cover"],
       [label |-> "- Mediaplayer:", domain |-> "media_player"],
       [label |-> "- Kameras:", domain |-> "camera"],
       [label |-> "- Szenen:", domain |-> "scene"],
       [label |-> "- Automatisierungen:", domain |-> "automation"],
       [label |-> "- Skripte:", domain |-> "script"],
       [label |-> "- Personen:", domain |-> "person"],
       [label |-> "- Zonen:", domain |-> "zone"] >>

RECURSIVE PlainLines(_, _)
PlainLines(all_states, cats) ==
    IF cats = << >> THEN << >>
    ELSE << Head(cats).label >> \o Num(CountDomain(all_states, Head(cats).domain))
         \o << "\n" >> \o PlainLines(all_states, Tail(cats))

ContextErrorText == << "Fehler beim Abrufen der Geraeteinformationen." >>

\* source: [fails |-> hass.states.async_all() raises, states |-> what it returns]
GetHaContext(source) ==
    IF source.fails THEN ContextErrorText
    ELSE LET all_states == source.states IN
         << "Geraete-Uebersicht:", "\n", "- Lichter:" >>
         \o Num(CountDomain(all_states, "light"))
         \o << "(davon" >> \o Num(CountOn(all_states, "light")) \o << "an)", "\n" >>
         \o << "- Schalter:" >> \o Num(CountDomain(all_states, "switch"))
         \o << "(davon" >> \o Num(CountOn(all_states, "switch")) \o << "an)", "\n" >>
         \o PlainLines(all_states, PlainCategories)
         \o << "\n", "Gesamt:" >> \o Num(Len(all_states)) \o << "Entitaeten" >>

-----------------------------------------------------------------------------
\* async_process, up to the call of _call_mistral_api

BasePrompt == << "Du bist ein intelligenter Hausautomatisierungs-Assistent ..." >>

\* The system prompt of lines 96-109: it is first built around ha_context and
\* then assigned again from base_prompt and the configured suffix.
SystemPrompt(context, extra) ==
    LET first == << "Du bist ein intelligenter Hausautomatisierungs-Assistent fuer Home Assistant.",
                    "\n", "\n", "Aktuelle Informationen ueber das Smart Home:", "\n" >>
                 \o context
                 \o << "\n", "\n", "Deine Aufgaben:", "...",
                       "Passe deine Sprache an die Sprache des Nutzers an." >>
        second == Strip(BasePrompt \o << "\n", "\n" >> \o extra)
        system_prompt == << first, second >>
    IN  system_prompt[2]

Turn(role, content) == [role |-> role, content |-> content]

\* BuildMessages taking the oldest stored turns instead of the latest
BuildMessages_Oldest(stored, system_prompt, text) ==
    << Turn("system", system_prompt) >>
    \o SubSeq(stored, 1, IF Len(stored) < ContextTurns THEN Len(stored) ELSE ContextTurns)
    \o << Turn("user", text) >>

\* messages = [system] + history[-10:] + [user]
BuildMessages(stored, system_prompt, text) ==
    << Turn("system", system_prompt) >>
    \o LastN(stored, ContextTurns)
    \o << Turn("user", text) >>

DefaultUser == << "default" >>

\* ResolveUserId ignoring the user id: one bucket for everybody
ResolveUserId_Shared(input) == DefaultUser

\* user_input.context.user_id or "default"
ResolveUserId(input) == OrElse(input.user_id, DefaultUser)

\* the n-th identifier ulid.ulid() hands out
Ulid(n) == << "ulid" >> \o Num(n)

\* ResolveConversationId handing out a new id on every call
ResolveConversationId_AlwaysFresh(input, fresh) == fresh

\* user_input.conversation_id or ulid.ulid()
ResolveConversationId(input, fresh) == OrElse(input.conversation_id, fresh)

\* self.history[user_id], the empty list when the key is not there yet
Stored(h, uid) == IF uid \in DOMAIN h THEN h[uid] ELSE << >>

\* if user_id not in self.history: self.history[user_id] = []
EnsureKey(h, uid) ==
    [u \in (DOMAIN h) \cup {uid} |-> Stored(h, u)]

-----------------------------------------------------------------------------
\* _call_mistral_api

TimeoutText == << "Die Anfrage hat zu lange gedauert. Bitte versuche es erneut." >>
RequestErrorPrefix == << "Fehler bei der API-Anfrage:" >>
InvalidAnswerText == << "Entschuldigung, ich konnte keine gueltige Antwort generieren." >>
UnexpectedText == << "Ein unerwarteter Fehler ist aufgetreten." >>

\* requests.exceptions.Timeout and HTTPError, ConnectionError derive from
\* RequestException; everything modelled derives from Exception
IsInstance(exc, class) ==
    \/ exc = class
    \/ class = "RequestException" /\ exc \in {"Timeout", "ConnectionError", "HTTPError"}
    \/ class = "Exception"

\* The try body of lines 225-234: [exc |-> class raised or "none", text |-> value returned]
TryRequest(resp) ==
    IF resp.kind = "Timeout" THEN [exc |-> "Timeout", text |-> EmptyText]
    ELSE IF resp.kind = "ConnectionError" THEN [exc |-> "ConnectionError", text |-> resp.detail]
    ELSE IF resp.status >= 400 THEN [exc |-> "HTTPError", text |-> resp.detail]
    ELSE LET data == resp.data IN
         IF data.has_choices /\ data.choices # << >>
         THEN IF data.choices[1].has_message
              THEN [exc |-> "none", text |-> Strip(data.choices[1].content)]
              ELSE [exc |-> "KeyError", text |-> << "'message'" >>]
         ELSE [exc |-> "none", text |-> InvalidAnswerText]

\* The except clauses of lines 236-244, in their order
CallMistralApi(resp) ==
    LET t == TryRequest(resp) IN
    IF t.exc = "none" THEN t
    ELSE IF IsInstance(t.exc, "Timeout") THEN [exc |-> "none", text |-> TimeoutText]
    ELSE IF IsInstance(t.exc, "RequestException")
         THEN [exc |-> "none", text |-> RequestErrorPrefix \o t.text]
    ELSE IF IsInstance(t.exc, "Exception") THEN [exc |-> "none", text |-> UnexpectedText]
    ELSE t

-----------------------------------------------------------------------------
\* async_process, after _call_mistral_api

ApologyText ==
    << "Entschuldigung, ich hatte einen Fehler beim Verarbeiten deiner Anfrage. ",
       "Bitte versuche es spaeter noch einmal." >>

\* AppendExchange with the two appends in the other order
AppendExchange_Swapped(stored, text, response_text) ==
    Append(Append(stored, Turn("assistant", response_text)), Turn("user", text))

\* lines 126-127: the two appends
AppendExchange(stored, text, response_text) ==
    Append(Append(stored, Turn("user", text)), Turn("assistant", response_text))

\* Truncate without the slice: the list is never trimmed
Truncate_Never(stored) == stored

\* Truncate slicing from the wrong end: [:20] for [-20:]
Truncate_Newest(stored) ==
    IF Len(stored) > HistoryLimit THEN SubSeq(stored, 1, HistoryLimit) ELSE stored

\* lines 130-131: keep only the last 20 messages
Truncate(stored) ==
    IF Len(stored) > HistoryLimit THEN LastN(stored, HistoryLimit) ELSE stored

\* lines 126-131
UpdateHistory(stored, text, response_text) ==
    Truncate(AppendExchange(stored, text, response_text))

ConversationResult(speech, cid) == [speech |-> speech, conversation_id |-> cid]

-----------------------------------------------------------------------------
\* Inputs.

SeedUser == << "A" >>

\* context.user_id: absent, empty, or a user of the host
UserIds == { None, Some(EmptyText), Some(SeedUser) }

\* conversation_id: absent, empty, or one the caller got earlier
ConversationIds == { None, Some(EmptyText), Some(<< "c1" >>) }

Utterances == { << "Licht", "an" >>, << "Wetter" >> }

ConversationInput(uid, cid, text) ==
    [user_id |-> uid, conversation_id |-> cid, text |-> text]

\* entry.options / entry.data "system_prompt"
SystemPromptSuffixes == { EmptyText, << "Antworte", "kurz." >> }

EmptyHome == [fails |-> FALSE, states |-> << >>]
SmallHome ==
    [fails |-> FALSE,
     states |-> << [domain |-> "light", state |-> "on"],
                   [domain |-> "light", state |-> "off"],
                   [domain |-> "switch", state |-> "on"],
                   [domain |-> "sensor", state |-> "21.5"] >>]
BrokenHome == [fails |-> TRUE, states |-> << >>]

\* what hass.states.async_all() does
StateSources == { BrokenHome, EmptyHome, SmallHome }

NoData == [has_choices |-> FALSE, choices |-> << >>]
Choices(list) == [has_choices |-> TRUE, choices |-> list]
Choice(content) == [has_message |-> TRUE, content |-> content]
NoMessage == [has_message |-> FALSE, content |-> EmptyText]
Response(kind, status, detail, data) ==
    [kind |-> kind, status |-> status, detail |-> detail, data |-> data]

\* the executor call gives a completion back
OkResponses ==
    { Response("Http", 200, EmptyText, Choices(<< Choice(<< "Zwei", "Lichter" >>) >>)),
      Response("Http", 200, EmptyText, Choices(<< Choice(<< " ", "Sonnig", "\n" >>) >>)) }

\* the executor call times out, fails in transport, ends in an error status,
\* or gives back a body without a usable first choice
FailedResponses ==
    { Response("Timeout", 0, EmptyText, NoData),
      Response("ConnectionError", 0, << "Connection", "refused" >>, NoData),
      Response("Http", 500, << "500", "Server", "Error" >>, NoData),
      Response("Http", 200, EmptyText, NoData),
      Response("Http", 200, EmptyText, Choices(<< >>)),
      Response("Http", 200, EmptyText, Choices(<< NoMessage >>)) }

Responses == OkResponses \cup FailedResponses

NoResponse == Response("none", 0, EmptyText, NoData)
NoInput == ConversationInput(None, None, EmptyText)
NoResult == ConversationResult(EmptyText, EmptyText)

\* the k-th exchange completed before a behaviour starts
SeedUtterance(k) == << "Frage" >> \o Num(k)
SeedReply(k) == << "Antwort" >> \o Num(k)

\* self.history[SeedUser] after k successful exchanges, built by the code's own update
RECURSIVE SeedHistory(_)
SeedHistory(k) ==
    IF k = 0 THEN << >>
    ELSE UpdateHistory(SeedHistory(k - 1), SeedUtterance(k), SeedReply(k))

SeedCounts == { 0, MaxSeed - 1, MaxSeed }

-----------------------------------------------------------------------------
\* The state machine.

\* __init__ (self.history = {}), followed by k completed exchanges of SeedUser
InitOf(seeds, suffixes) ==
    /\ \E k \in seeds :
          history = IF k = 0 THEN [u \in {} |-> << >>]
                    ELSE [u \in {SeedUser} |-> SeedHistory(k)]
    /\ extra_system_prompt \in suffixes
    /\ pc = [r \in Requests |-> "idle"]
    /\ user_input = [r \in Requests |-> NoInput]
    /\ user_id = [r \in Requests |-> EmptyText]
    /\ conversation_id = [r \in Requests |-> EmptyText]
    /\ ha_context = [r \in Requests |-> EmptyText]
    /\ messages = [r \in Requests |-> << >>]
    /\ response = [r \in Requests |-> NoResponse]
    /\ result = [r \in Requests |-> NoResult]
    /\ ulids = 0
    /\ calls = 0

\* async_process from its entry to the suspension in _call_mistral_api
\* (lines 86-123 and 200-225): the coroutine r is started with an input
Begin(r, inputs, sources) ==
    /\ pc[r] # "awaiting"
    /\ calls < MaxCalls
    /\ \E input \in inputs, source \in sources :
          LET uid == ResolveUserId(input)
              fresh == Ulid(ulids + 1)
              cid == ResolveConversationId(input, fresh)
              h == EnsureKey(history, uid)
              context == GetHaContext(source)
              system_prompt == SystemPrompt(context, extra_system_prompt)
          IN  /\ user_input' = [user_input EXCEPT ![r] = input]
              /\ user_id' = [user_id EXCEPT ![r] = uid]
              /\ conversation_id' = [conversation_id EXCEPT ![r] = cid]
              /\ ulids' = IF cid = fresh THEN ulids + 1 ELSE ulids
              /\ history' = h
              /\ ha_context' = [ha_context EXCEPT ![r] = context]
              /\ messages' = [messages EXCEPT
                                ![r] = BuildMessages(h[uid], system_prompt, input.text)]
    /\ response' = [response EXCEPT ![r] = NoResponse]
    /\ result' = [result EXCEPT ![r] = NoResult]
    /\ pc' = [pc EXCEPT ![r] = "awaiting"]
    /\ calls' = calls + 1
    /\ UNCHANGED extra_system_prompt

\* StoredAtResume using the turns the coroutine read before it was suspended
StoredAtResume_Snapshot(r) == SubSeq(messages[r], 2, Len(messages[r]) - 1)

\* self.history[user_id] as read again at line 126, after the await
StoredAtResume(r) == history[user_id[r]]

\* async_process from the resumption of the coroutine to its return
\* (lines 225-244 and 123-153): the executor call has produced resp.
\* The locals of the coroutine end with it.
Resume(r, responses) ==
    /\ pc[r] = "awaiting"
    /\ \E resp \in responses :
          LET api == CallMistralApi(resp)
              uid == user_id[r]
          IN  /\ response' = [response EXCEPT ![r] = resp]
              /\ IF api.exc = "none"
                 THEN /\ history' = [history EXCEPT
                            ![uid] = UpdateHistory(StoredAtResume(r), user_input[r].text, api.text)]
                      /\ result' = [result EXCEPT
                            ![r] = ConversationResult(api.text, conversation_id[r])]
                      /\ pc' = [pc EXCEPT ![r] = "returned"]
                 ELSE IF IsInstance(api.exc, "Exception")
                 THEN /\ history' = history
                      /\ result' = [result EXCEPT
                            ![r] = ConversationResult(ApologyText, conversation_id[r])]
                      /\ pc' = [pc EXCEPT ![r] = "returned"]
                 ELSE /\ history' = history
                      /\ result' = result
                      /\ pc' = [pc EXCEPT ![r] = "raised"]
    /\ user_id' = [user_id EXCEPT ![r] = EmptyText]
    /\ conversation_id' = [conversation_id EXCEPT ![r] = EmptyText]
    /\ ha_context' = [ha_context EXCEPT ![r] = EmptyText]
    /\ messages' = [messages EXCEPT ![r] = << >>]
    /\ UNCHANGED << extra_system_prompt, user_input, ulids, calls >>

-----------------------------------------------------------------------------
\* Specifications.  Each one runs the same two steps of async_process; they
\* differ in the inputs the host and the completion endpoint are allowed.

\* A user of the host and callers without a user id, talking concurrently.
HistoryInputs ==
    { ConversationInput(u, None, t) : u \in UserIds, t \in Utterances }
HistoryResponses ==
    OkResponses \cup { Response("Timeout", 0, EmptyText, NoData),
                       Response("Http", 200, EmptyText, Choices(<< >>)) }

Init == InitOf(SeedCounts, { << "Antworte", "kurz." >> })
Next ==
    \E r \in Requests :
        \/ Begin(r, HistoryInputs, { SmallHome })
        \/ Resume(r, HistoryResponses)
Spec == Init /\ [][Next]_vars

\* One user, every way the completion call can end.
FailureInputs == { ConversationInput(Some(SeedUser), None, t) : t \in Utterances }

NextFailures ==
    \E r \in Requests :
        \/ Begin(r, FailureInputs, { SmallHome })
        \/ Resume(r, Responses)
SpecFailures == Init /\ [][NextFailures]_vars

\* Every shape of user id and conversation id, every way the call can end.
SessionInputs ==
    { ConversationInput(u, c, << "Wetter" >>) :
        u \in { Some(EmptyText), Some(SeedUser) }, c \in ConversationIds }

InitSession == InitOf({ 0 }, { EmptyText })
NextSession ==
    \E r \in Requests :
        \/ Begin(r, SessionInputs, { BrokenHome, SmallHome })
        \/ Resume(r, Responses)
SpecSession == InitSession /\ [][NextSession]_vars

\* Every state source and every configured suffix.
ContextInputs == { ConversationInput(Some(SeedUser), None, << "Licht", "an" >>) }

InitContext == InitOf({ 0, 1 }, SystemPromptSuffixes)
NextContext ==
    \E r \in Requests :
        \/ Begin(r, ContextInputs, StateSources)
        \/ Resume(r, { Response("Timeout", 0, EmptyText, NoData) } \cup OkResponses)
SpecContext == InitContext /\ [][NextContext]_vars

-----------------------------------------------------------------------------
\* Vocabulary of the properties.

\* the step is the second half of request r: it resumes and ends
Resumed(r) == pc[r] = "awaiting" /\ pc'[r] # "awaiting"

\* the step is the first half of request r: it starts and is suspended
Begun(r) == pc[r] # "awaiting" /\ pc'[r] = "awaiting"

\* History[userId] of the specification for the caller of an input:
\* the bucket "default" when the user id is absent
Bucket(input) ==
    IF input.user_id = << >> \/ input.user_id = << << >> >>
    THEN << "default" >>
    ELSE input.user_id[1]

\* History[u], empty while no entry exists
HistoryOf(h, u) == IF u \in DOMAIN h THEN h[u] ELSE << >>

\* the two entries a call with this input and this reply records
Exchange(input, reply) ==
    << [role |-> "user", content |-> input.text],
       [role |-> "assistant", content |-> reply] >>

Failed(resp) == resp \in FailedResponses
Succeeded(resp) == resp \in OkResponses

Min(a, b) == IF a < b THEN a ELSE b

\* the text t occurs in the text s as a contiguous run of tokens
Contains(s, t) ==
    \E i \in 1..(Len(s) - Len(t) + 1) : SubSeq(s, i, i + Len(t) - 1) = t

-----------------------------------------------------------------------------
\* C1: whatever way each completion call of one user ends, History[userId]
\* never holds more than 20 entries and its length is even (in every state,
\* hence in every state after a successful exchange was recorded).
C1_BoundedEvenHistory ==
    \A u \in DOMAIN history :
        /\ Len(history[u]) <= 20
        /\ Len(history[u]) % 2 = 0

\* a full history after one call that failed and one that succeeded
C1_Witness ==
    /\ Len(HistoryOf(history, SeedUser)) = 20
    /\ \E r1, r2 \in Requests :
          /\ pc[r1] = "returned" /\ Failed(response[r1])
          /\ pc[r2] = "returned" /\ Succeeded(response[r2])

\* C2: a failed completion call leaves History unchanged.
C2_FailureLeavesHistory ==
    [][ \A r \in Requests :
            Resumed(r) /\ Failed(response'[r]) => history' = history ]_vars

\* C3: any two calls whose completion failed return the same reply text.
C3_SameApology ==
    \A r1, r2 \in Requests :
        ( /\ pc[r1] = "returned" /\ Failed(response[r1])
          /\ pc[r2] = "returned" /\ Failed(response[r2]) )
        => result[r1].speech = result[r2].speech

\* C4: a successful completion call appends the user entry and then the
\* assistant entry to History[userId]: the new history is the old one followed
\* by the two entries, less what truncation removed from the front, and it is
\* exactly that sequence while it has at most 20 entries.
C4_AppendsExchange ==
    [][ \A r \in Requests :
            Resumed(r) /\ Succeeded(response'[r]) =>
                LET u == Bucket(user_input[r])
                    pre == HistoryOf(history, u) \o Exchange(user_input[r], result'[r].speech)
                    new == HistoryOf(history', u)
                IN  /\ Len(new) >= 2
                    /\ SubSeq(new, Len(new) - 1, Len(new))
                          = Exchange(user_input[r], result'[r].speech)
                    /\ \E d \in 0..Len(pre) : new = SubSeq(pre, d + 1, Len(pre))
                    /\ Len(pre) <= 20 => new = pre ]_vars

\* a successful call has returned and its exchange ends a history that held
\* entries before
C4_Witness ==
    \E r \in Requests :
        /\ pc[r] = "returned" /\ Succeeded(response[r])
        /\ LET h == HistoryOf(history, Bucket(user_input[r])) IN
              /\ Len(h) >= 4 /\ Len(h) < 20
              /\ SubSeq(h, Len(h) - 1, Len(h)) = Exchange(user_input[r], result[r].speech)

\* C5: when a call makes History[userId] exceed 20 entries, what is left is
\* the last 20 entries of the untruncated sequence in their order, and the two
\* entries of that call are the last two.
C5_OldestDiscardedFirst ==
    [][ \A r \in Requests :
            Resumed(r) /\ Len(HistoryOf(history, Bucket(user_input[r]))) + 2 > 20 =>
                LET u == Bucket(user_input[r])
                    pre == HistoryOf(history, u) \o Exchange(user_input[r], result'[r].speech)
                    new == HistoryOf(history', u)
                IN  /\ Len(new) = 20
                    /\ \A i \in 1..20 : new[i] = pre[Len(pre) - 20 + i]
                    /\ SubSeq(new, 19, 20) = Exchange(user_input[r], result'[r].speech) ]_vars

\* a call has returned, its exchange ends a full history, and the oldest
\* exchange the history started with is gone
C5_Witness ==
    \E r \in Requests :
        /\ pc[r] = "returned"
        /\ Bucket(user_input[r]) = SeedUser
        /\ Len(history[SeedUser]) = 20
        /\ SubSeq(history[SeedUser], 19, 20) = Exchange(user_input[r], result[r].speech)
        /\ history[SeedUser][1].content = << "Frage", "2" >>

\* C6: the message list of a call is one system message, the last min(10, n)
\* entries of History[userId] as it stood when the call started, in their
\* order, and one user message with the utterance; building it leaves the
\* stored history as it was.
C6_OutboundMessages ==
    [][ \A r \in Requests :
            Begun(r) =>
                LET u == Bucket(user_input'[r])
                    h == HistoryOf(history, u)
                    n == Len(h)
                    k == Min(10, n)
                    m == messages'[r]
                IN  /\ Len(m) = k + 2
                    /\ m[1].role = "system"
                    /\ \A i \in 1..k : m[1 + i] = h[n - k + i]
                    /\ m[k + 2] = [role |-> "user", content |-> user_input'[r].text]
                    /\ HistoryOf(history', u) = h ]_vars

\* a call is in flight whose message list holds ten of the twenty stored turns
C6_Witness ==
    \E r \in Requests :
        /\ pc[r] = "awaiting"
        /\ Len(history[user_id[r]]) = 20
        /\ Len(messages[r]) = 12
        /\ messages[r][2] = history[user_id[r]][11]
        /\ messages[r][12].content = user_input[r].text

\* C7: the system message of a call contains the context summary computed
\* for that call.
C7_ContextInSystemMessage ==
    \A r \in Requests :
        pc[r] = "awaiting" => Contains(messages[r][1].content, ha_context[r])

\* C8: no call ends by raising; the result of a call carries the conversation
\* id passed in when a (non-empty) one was passed, and otherwise a non-empty
\* id that no caller passed and no other call was given.
C8_AlwaysReturns ==
    \A r \in Requests :
        /\ pc[r] # "raised"
        /\ pc[r] = "returned" =>
              LET passed == user_input[r].conversation_id
                  got == result[r].conversation_id
              IN  IF passed # << >> /\ passed # << << >> >>
                  THEN got = passed[1]
                  ELSE /\ got # << >>
                       /\ \A c \in ConversationIds : c # << got >>
                       /\ \A q \in Requests \ {r} :
                             pc[q] = "returned" => result[q].conversation_id # got

\* one call returned the id it was passed although the completion failed
\* unexpectedly, another was given a generated id after a time-out, with an
\* empty conversation id passed in
C8_Witness ==
    \E r1, r2 \in Requests :
        /\ pc[r1] = "returned"
        /\ response[r1].data = Choices(<< NoMessage >>)
        /\ user_input[r1].conversation_id = << << "c1" >> >>
        /\ result[r1].conversation_id = << "c1" >>
        /\ pc[r2] = "returned"
        /\ response[r2].kind = "Timeout"
        /\ user_input[r2].conversation_id = << << >> >>
        /\ result[r2].conversation_id = << "ulid", "1" >>

\* C9: under every interleaving of calls of one user, History[userId] holds
\* at most 20 entries made of adjacent (user, assistant) pairs, and each call
\* that ends adds its own utterance and its own reply as the last pair while
\* the entries before it are the latest entries of the history it found: no
\* pair is split and no exchange is dropped other than the oldest ones.
C9_ConcurrentCallsKeepPairs ==
    /\ [] ( \A u \in DOMAIN history :
              /\ Len(history[u]) <= 20
              /\ Len(history[u]) % 2 = 0
              /\ \A i \in 1..Len(history[u]) :
                    history[u][i].role = IF i % 2 = 1 THEN "user" ELSE "assistant" )
    /\ [][ \A r \in Requests :
              Resumed(r) =>
                  LET u == Bucket(user_input[r])
                      old == HistoryOf(history, u)
                      new == HistoryOf(history', u)
                      kept == Min(Len(old), 18)
                  IN  /\ Len(new) = kept + 2
                      /\ SubSeq(new, 1, kept) = SubSeq(old, Len(old) - kept + 1, Len(old))
                      /\ SubSeq(new, kept + 1, kept + 2)
                            = Exchange(user_input[r], result'[r].speech) ]_vars

\* two calls of one user were in flight together: one has returned and its
\* exchange ends the history, the other is still suspended with a message list
\* built before that exchange was recorded
C9_Witness ==
    \E r1, r2 \in Requests :
        /\ r1 # r2
        /\ pc[r1] = "returned" /\ pc[r2] = "awaiting"
        /\ Bucket(user_input[r1]) = Bucket(user_input[r2])
        /\ LET h == history[user_id[r2]] IN
              /\ Len(h) >= 4
              /\ SubSeq(h, Len(h) - 1, Len(h)) = Exchange(user_input[r1], result[r1].speech)
              /\ messages[r2][Len(messages[r2]) - 1] = h[Len(h) - 2]

\* C10: a step of a call for one user leaves the history of every other user
\* as it was, and the message list it builds holds no turn that only another
\* user's history holds.
C10_OtherUsersUntouched ==
    [][ \A r \in Requests :
            /\ Resumed(r) =>
                  \A b \in (DOMAIN history) \cup (DOMAIN history') :
                      b # Bucket(user_input[r]) =>
                          /\ b \in DOMAIN history /\ b \in DOMAIN history'
                          /\ history'[b] = history[b]
            /\ Begun(r) =>
                  \A b \in (DOMAIN history) \cup (DOMAIN history') :
                      b # Bucket(user_input'[r]) =>
                          /\ b \in DOMAIN history /\ b \in DOMAIN history'
                          /\ history'[b] = history[b]
                          /\ \A i \in 1..Len(history[b]), j \in 2..(Len(messages'[r]) - 1) :
                                messages'[r][j] = history[b][i] =>
                                    \E k \in 1..Len(HistoryOf(history, Bucket(user_input'[r]))) :
                                        history[Bucket(user_input'[r])][k] = history[b][i] ]_vars

\* a caller without a user id has recorded an exchange while the seeded user
\* has a call in flight: both buckets hold turns, the seeded history is intact
C10_Witness ==
    \E r1, r2 \in Requests :
        /\ pc[r1] = "returned" /\ Bucket(user_input[r1]) = << "default" >>
        /\ pc[r2] = "awaiting" /\ Bucket(user_input[r2]) = SeedUser
        /\ history[<< "default" >>] = Exchange(user_input[r1], result[r1].speech)
        /\ Len(history[SeedUser]) = 20
        /\ Len(messages[r2]) = 12

====
